---- MODULE Spec2Model ----
(***************************************************************************)
(* tickticktoe: the game-state simulator (grid, move validation, N-in-a-   *)
(* row win detection, optional gravity, turn toggling) as it is written    *)
(* three times in the repository, and the websocket lobby that drives it.  *)
(*                                                                         *)
(*   server.rs  Lobby, Client::on_message     (prog = "server")            *)
(*   server.rs  the same, step by step        (prog = "handlers")          *)
(*   server.rs  Game::simulate on its own     (prog = "game")              *)
(*   client.rs  LocalSimulator::push          (prog = "client")            *)
(*   main.rs    MainState mouse/key handlers  (prog = "main")              *)
(*                                                                         *)
(* The binaries are separate: a behaviour is a run of one of them.  Spec   *)
(* is the server, a handler call being one step under the lobby mutex;     *)
(* LockSpec is the server with the mutex as a variable and a handler call  *)
(* followed from lock() to the drop of the guard; SimSpec runs the three   *)
(* simulators, each from every configuration and under every sequence of   *)
(* Place and Restart.                                                      *)
(***************************************************************************)
EXTENDS Integers, Sequences, FiniteSets, TLC

VARIABLES
    prog,     \* which program is running
    lobby,    \* server.rs: the Lobby behind the mutex
    out,      \* server.rs: the messages sent by the last handler call
    game,     \* server.rs: a Game driven directly by Game::simulate
    sim,      \* client.rs: LocalSimulator.state
    main,     \* main.rs: MainState
    ret,      \* the way the last handler call ended
    crashed,  \* the program panicked
    received, \* server.rs: per client, the state of the last message sent to
              \* it, which is what the client holds once it has been delivered
    mutex,    \* server.rs: the id of the handler holding the lobby mutex, or 0
    handler,  \* server.rs: per client, the handler call in progress
    produced  \* server.rs: the state the last call of Game::simulate left

\* What following on_message step by step adds to the server.
lockVars == <<received, mutex, handler, produced>>

vars == <<prog, lobby, out, game, sim, main, ret, crashed, lockVars>>

(* ------------------------------ bounds --------------------------------- *)

\* SimSpec: grid sizes 0..MaxSize are given to State::new, and Place
\* coordinates range over 0..MaxSize, so that a coordinate may lie outside.
MaxSize == 3
\* Spec: SetGridSize carries 0..MaxLobbySize, and so do Place coordinates.
MaxLobbySize == 2
\* Win conditions 0..MaxWin are given to State::new and SetWinCondition.
MaxWin == 3
\* Connections accepted by the server.
MaxClients == 3

(* ------------------------------ values --------------------------------- *)

\* Rust's Option<T>: None is the empty tuple, Some(x) the one-element tuple.
None == <<>>
Some(x) == <<x>>
IsSome(o) == o # <<>>
Unwrap(o) == o[1]

Player == {"Naughts", "Crosses"}

\* enum Command, as a tagged tuple.
Place(col, row) == <<"Place", col, row>>
Restart == <<"Restart">>
StartGame == <<"StartGame">>
SetWinCondition(n) == <<"SetWinCondition", n>>
SetGridSize(n) == <<"SetGridSize", n>>
SetGravity(b) == <<"SetGravity", b>>

\* Place(col, row) for col, row in 0..max, and Restart.
GameCommands(max) == {Place(c, r) : c \in 0..max, r \in 0..max} \cup {Restart}
LobbyCommands ==
    {StartGame}
        \cup {SetWinCondition(n) : n \in 0..MaxWin}
        \cup {SetGridSize(n) : n \in 0..MaxLobbySize}
        \cup {SetGravity(b) : b \in BOOLEAN}
\* What a client of the server may send.
Commands == GameCommands(MaxLobbySize) \cup LobbyCommands

\* `x as usize` for an i32 x: a negative value wraps to the top of the
\* usize range, far above every grid size of the model.
UsizeWrap == 2 ^ 30
AsUsize(i) == IF i < 0 THEN UsizeWrap + i ELSE i

\* `.max(0) as usize`
Max0(i) == IF i < 0 THEN 0 ELSE i

(* ------------------------------ State ---------------------------------- *)

\* vec![vec![None; size]; size], indexed grid[col][row]
EmptyGrid(size) == [c \in 0..(size - 1) |-> [r \in 0..(size - 1) |-> None]]

StateNew(size, win, gravity) ==
    [winner |-> None,
     turn |-> "Naughts",
     grid |-> EmptyGrid(size),
     size |-> size,
     win |-> win,
     gravity |-> gravity]

\* MainState has no gravity field.
MainStateNew(size, win) ==
    [winner |-> None,
     turn |-> "Naughts",
     grid |-> EmptyGrid(size),
     size |-> size,
     win |-> win]

\* Mutant of check_direction: an empty cell or a mark of the other player
\* does not end the loop, which counts the player's marks up to the border.
RECURSIVE check_direction_to_border(_, _, _, _, _, _)
check_direction_to_border(st, col, row, x, y, player) ==
    LET c == col + x
        r == row + y
    IN  IF \/ st.size - 1 < AsUsize(c)
           \/ c < 0
           \/ st.size - 1 < AsUsize(r)
           \/ r < 0
        THEN 0
        ELSE (IF st.grid[c][r] = Some(player) THEN 1 ELSE 0)
                 + check_direction_to_border(st, c, r, x, y, player)

\* Consecutive pieces owned by `player` from (col, row) in direction (x, y),
\* the start cell excluded.  `st` is any record with fields size and grid.
\* It is called only after a piece went onto the grid, so size >= 1 and
\* `self.size - 1` does not underflow.
RECURSIVE check_direction(_, _, _, _, _, _)
check_direction(st, col, row, x, y, player) ==
    LET c == col + x
        r == row + y
    IN  IF \/ st.size - 1 < AsUsize(c)
           \/ c < 0
           \/ st.size - 1 < AsUsize(r)
           \/ r < 0
        THEN 0
        ELSE IF st.grid[c][r] = Some(player)
             THEN 1 + check_direction(st, c, r, x, y, player)
             ELSE 0

\* lib.rs: State::check_direction, the copy of the library crate.
RECURSIVE lib_check_direction(_, _, _, _, _, _)
lib_check_direction(st, col, row, x, y, player) ==
    LET c == col + x
        r == row + y
    IN  IF \/ st.size - 1 < AsUsize(c)
           \/ c < 0
           \/ st.size - 1 < AsUsize(r)
           \/ r < 0
        THEN 0
        ELSE IF st.grid[c][r] = Some(player)
             THEN 1 + lib_check_direction(st, c, r, x, y, player)
             ELSE 0

\* The range test of a round of check_direction on cell (c, r): the loop
\* returns without reading the grid.
PastBorder(st, c, r) ==
    \/ st.size - 1 < AsUsize(c)
    \/ c < 0
    \/ st.size - 1 < AsUsize(r)
    \/ r < 0

\* A call of check_direction returns a count.  With direction (0, 0) a round
\* leaves (col, row) where it was, so when that cell holds the player's mark
\* every round finds it again and counts it, and the loop does not end.
check_direction_returns(st, col, row, x, y, player) ==
    ~(x = 0 /\ y = 0 /\ ~PastBorder(st, col, row) /\ st.grid[col][row] = Some(player))

\* The cells whose content a call of check_direction that returns n reads:
\* one per round, the last round included unless the range test ended it.
check_direction_reads(st, col, row, x, y, n) ==
    {<<col + i * x, row + i * y>> : i \in 1..n} \cup
        (IF PastBorder(st, col + (n + 1) * x, row + (n + 1) * y) THEN {}
         ELSE {<<col + (n + 1) * x, row + (n + 1) * y>>})

\* The (forward, backward) pairs, in the order the loops visit them.
Directions ==
    << << <<1, 0>>, <<-1, 0>> >>,
       << <<0, 1>>, <<0, -1>> >>,
       << <<1, 1>>, <<-1, -1>> >>,
       << <<-1, 1>>, <<1, -1>> >> >>

Toggle(p) == IF p = "Naughts" THEN "Crosses" ELSE "Naughts"

\* Mutant of FallRow: the loop runs without .rev(), from row 0 down, so the
\* piece stays in the first empty cell at the top of the column.
RECURSIVE FallRowFromTop(_, _, _)
FallRowFromTop(grid, col, ii) ==
    IF ii < 0 THEN -1
    ELSE LET above == FallRowFromTop(grid, col, ii - 1)
         IN  IF above >= 0 THEN above
             ELSE IF grid[col][ii] = None THEN ii ELSE -1

\* The gravity loop `for ii in (0..len).rev()`: the first empty cell of
\* column col met from row ii towards row 0, or -1 when the loop ends
\* without placing.
RECURSIVE FallRow(_, _, _)
FallRow(grid, col, ii) ==
    IF ii < 0 THEN -1
    ELSE IF grid[col][ii] = None THEN ii
    ELSE FallRow(grid, col, ii - 1)

\* Vec::len of a vector indexed from 0.
VecLen(v) == Cardinality(DOMAIN v)

\* Indexing grid[col][row] panics when either index is out of bounds.
InBounds(st, col, row) ==
    /\ col \in DOMAIN st.grid
    /\ row \in DOMAIN st.grid[col]

(* --------------------- server.rs: Game::simulate ----------------------- *)

\* Mutant of Axis: the counts are left out, and the two cells recorded are
\* the neighbours of (col, row).
AxisOneStep(col, row, f, fc, b, bc) ==
    << <<Max0(col + f[1]), Max0(row + f[2])>>,
       <<Max0(col + b[1]), Max0(row + b[2])>> >>

\* Start and end cell recorded with the winner.
Axis(col, row, f, fc, b, bc) ==
    << <<Max0(col + f[1] * fc), Max0(row + f[2] * fc)>>,
       <<Max0(col + b[1] * bc), Max0(row + b[2] * bc)>> >>

\* Mutant of WinScan: the loop stops before the last direction pair, so a
\* run along the anti-diagonal is never seen.
RECURSIVE WinScanNoAntiDiagonal(_, _, _, _)
WinScanNoAntiDiagonal(st, col, row, d) ==
    IF d > Len(Directions) - 1 THEN st.winner
    ELSE LET f == Directions[d][1]
             b == Directions[d][2]
             forward_count == check_direction(st, col, row, f[1], f[2], st.turn)
             backward_count == check_direction(st, col, row, b[1], b[2], st.turn)
             count == forward_count + backward_count + 1
         IN  IF count >= st.win
             THEN Some(<<"Crosses", Axis(col, row, f, forward_count, b, backward_count)>>)
             ELSE WinScanNoAntiDiagonal(st, col, row, d + 1)

\* The loop over the four direction pairs, from pair d on: the winner field
\* after the loop (st already holds the placed piece, st.turn is the placer).
RECURSIVE WinScan(_, _, _, _)
WinScan(st, col, row, d) ==
    IF d > Len(Directions) THEN st.winner
    ELSE LET f == Directions[d][1]
             b == Directions[d][2]
             forward_count == check_direction(st, col, row, f[1], f[2], st.turn)
             backward_count == check_direction(st, col, row, b[1], b[2], st.turn)
             count == forward_count + backward_count + 1
         IN  IF count >= st.win
             THEN Some(<<"Crosses", Axis(col, row, f, forward_count, b, backward_count)>>)
             ELSE WinScan(st, col, row, d + 1)

\* Mutant of Settle: a winning placement leaves the loop and the function,
\* and the turn is not toggled.
SettleNoToggleOnWin(st, col, row) ==
    LET w == WinScan(st, col, row, 1)
    IN  [st EXCEPT !.winner = w, !.turn = IF IsSome(w) THEN st.turn ELSE Toggle(st.turn)]

\* After the piece is on the grid at (col, row): win check, then turn toggle.
Settle(st, col, row) ==
    [st EXCEPT !.winner = WinScan(st, col, row, 1), !.turn = Toggle(st.turn)]

\* Mutant of place_gravity: the piece does not fall and stays in the top
\* cell of the column.
place_gravity_no_fall(st, col, row) ==
    IF ~InBounds(st, col, 0) THEN [state |-> st, row |-> row, ret |-> "panic"]
    ELSE IF IsSome(st.grid[col][0]) THEN [state |-> st, row |-> row, ret |-> "full"]
    ELSE [state |-> [st EXCEPT !.grid[col][0] = Some(st.turn)],
          row |-> 0,
          ret |-> "placed"]

\* The gravity arm: the piece falls down column col.  "panic" is the index
\* grid[col][0] out of bounds, "full" the early return.
place_gravity(st, col, row) ==
    IF ~InBounds(st, col, 0) THEN [state |-> st, row |-> row, ret |-> "panic"]
    ELSE IF IsSome(st.grid[col][0]) THEN [state |-> st, row |-> row, ret |-> "full"]
    ELSE LET ii == FallRow(st.grid, col, VecLen(st.grid[col]) - 1)
         IN  IF ii < 0 THEN [state |-> st, row |-> row, ret |-> "placed"]
             ELSE [state |-> [st EXCEPT !.grid[col][ii] = Some(st.turn)],
                   row |-> ii,
                   ret |-> "placed"]

\* Mutant of place_cell: the occupied check is missing and the cell is
\* overwritten.
place_cell_overwrite(st, col, row) ==
    IF ~InBounds(st, col, row) THEN [state |-> st, row |-> row, ret |-> "panic"]
    ELSE [state |-> [st EXCEPT !.grid[col][row] = Some(st.turn)],
          row |-> row,
          ret |-> "placed"]

\* The arm without gravity: the piece goes to (col, row).  "panic" is the
\* index grid[col][row] out of bounds, "occupied" the early return.
place_cell(st, col, row) ==
    IF ~InBounds(st, col, row) THEN [state |-> st, row |-> row, ret |-> "panic"]
    ELSE IF IsSome(st.grid[col][row]) THEN [state |-> st, row |-> row, ret |-> "occupied"]
    ELSE [state |-> [st EXCEPT !.grid[col][row] = Some(st.turn)],
          row |-> row,
          ret |-> "placed"]

\* The Place arm once the winner check has passed.
place(st, col, row) ==
    LET p == IF st.gravity THEN place_gravity(st, col, row) ELSE place_cell(st, col, row)
    IN  IF p.ret = "placed"
        THEN [state |-> Settle(p.state, col, p.row), ret |-> "placed"]
        ELSE [state |-> st, ret |-> p.ret]

\* Mutant of simulate: the winner check before placing is missing.
simulate_no_winner_check(st, cmd) ==
    IF cmd[1] = "Place"
    THEN place(st, cmd[2], cmd[3])
    ELSE IF cmd[1] = "Restart"
    THEN [state |-> StateNew(st.size, st.win, st.gravity), ret |-> "restart"]
    ELSE [state |-> st, ret |-> "ignored"]

\* Mutant of simulate: Restart empties the grid and keeps the turn.
simulate_restart_keeps_turn(st, cmd) ==
    IF cmd[1] = "Place"
    THEN IF IsSome(st.winner) THEN [state |-> st, ret |-> "won"]
         ELSE place(st, cmd[2], cmd[3])
    ELSE IF cmd[1] = "Restart"
    THEN [state |-> [StateNew(st.size, st.win, st.gravity) EXCEPT !.turn = st.turn],
          ret |-> "restart"]
    ELSE [state |-> st, ret |-> "ignored"]

\* Game::simulate.  The result names the state left behind and the way the
\* call ended: "won", "full", "occupied" are the early returns, "placed" and
\* "restart" the two paths that write, "ignored" the `_ => {}` arm, "panic"
\* an index out of bounds.
simulate(st, cmd) ==
    IF cmd[1] = "Place"
    THEN IF IsSome(st.winner) THEN [state |-> st, ret |-> "won"]
         ELSE place(st, cmd[2], cmd[3])
    ELSE IF cmd[1] = "Restart"
    THEN [state |-> StateNew(st.size, st.win, st.gravity), ret |-> "restart"]
    ELSE [state |-> st, ret |-> "ignored"]

(* ------------------- client.rs: LocalSimulator::push ------------------- *)

\* client.rs: State::check_direction.
RECURSIVE push_check_direction(_, _, _, _, _, _)
push_check_direction(st, col, row, x, y, player) ==
    LET c == col + x
        r == row + y
    IN  IF \/ st.size - 1 < AsUsize(c)
           \/ c < 0
           \/ st.size - 1 < AsUsize(r)
           \/ r < 0
        THEN 0
        ELSE IF st.grid[c][r] = Some(player)
             THEN 1 + push_check_direction(st, c, r, x, y, player)
             ELSE 0

RECURSIVE PushWinScan(_, _, _, _)
PushWinScan(st, col, row, d) ==
    IF d > Len(Directions) THEN st.winner
    ELSE LET f == Directions[d][1]
             b == Directions[d][2]
             forward_count == push_check_direction(st, col, row, f[1], f[2], st.turn)
             backward_count == push_check_direction(st, col, row, b[1], b[2], st.turn)
             count == forward_count + backward_count + 1
         IN  IF count >= st.win
             THEN Some(<<"Crosses", Axis(col, row, f, forward_count, b, backward_count)>>)
             ELSE PushWinScan(st, col, row, d + 1)

PushSettle(st, col, row) ==
    [st EXCEPT !.winner = PushWinScan(st, col, row, 1), !.turn = Toggle(st.turn)]

\* Mutant of push_gravity: the piece does not fall and stays in the top cell
\* of the column.
push_gravity_no_fall(st, col, row) ==
    IF ~InBounds(st, col, 0) THEN [state |-> st, row |-> row, ret |-> "panic"]
    ELSE IF IsSome(st.grid[col][0]) THEN [state |-> st, row |-> row, ret |-> "full"]
    ELSE [state |-> [st EXCEPT !.grid[col][0] = Some(st.turn)],
          row |-> 0,
          ret |-> "placed"]

push_gravity(st, col, row) ==
    IF ~InBounds(st, col, 0) THEN [state |-> st, row |-> row, ret |-> "panic"]
    ELSE IF IsSome(st.grid[col][0]) THEN [state |-> st, row |-> row, ret |-> "full"]
    ELSE LET ii == FallRow(st.grid, col, VecLen(st.grid[col]) - 1)
         IN  IF ii < 0 THEN [state |-> st, row |-> row, ret |-> "placed"]
             ELSE [state |-> [st EXCEPT !.grid[col][ii] = Some(st.turn)],
                   row |-> ii,
                   ret |-> "placed"]

\* Mutant of push_cell: the occupied check is missing and the cell is
\* overwritten.
push_cell_overwrite(st, col, row) ==
    IF ~InBounds(st, col, row) THEN [state |-> st, row |-> row, ret |-> "panic"]
    ELSE [state |-> [st EXCEPT !.grid[col][row] = Some(st.turn)],
          row |-> row,
          ret |-> "placed"]

push_cell(st, col, row) ==
    IF ~InBounds(st, col, row) THEN [state |-> st, row |-> row, ret |-> "panic"]
    ELSE IF IsSome(st.grid[col][row]) THEN [state |-> st, row |-> row, ret |-> "occupied"]
    ELSE [state |-> [st EXCEPT !.grid[col][row] = Some(st.turn)],
          row |-> row,
          ret |-> "placed"]

push_place(st, col, row) ==
    LET p == IF st.gravity THEN push_gravity(st, col, row) ELSE push_cell(st, col, row)
    IN  IF p.ret = "placed"
        THEN [state |-> PushSettle(p.state, col, p.row), ret |-> "placed"]
        ELSE [state |-> st, ret |-> p.ret]

\* LocalSimulator::push (its Command has only Place and Restart).
\* state_changes is None in every run (nothing calls
\* Simulator::state_changes), so the trailing send never happens.
push(st, cmd) ==
    IF cmd[1] = "Restart"
    THEN [state |-> StateNew(st.size, st.win, st.gravity), ret |-> "restart"]
    ELSE IF IsSome(st.winner) THEN [state |-> st, ret |-> "won"]
         ELSE push_place(st, cmd[2], cmd[3])

(* ------------------------- main.rs: MainState -------------------------- *)

\* main.rs: MainState::check_direction.
RECURSIVE main_check_direction(_, _, _, _, _, _)
main_check_direction(st, col, row, x, y, player) ==
    LET c == col + x
        r == row + y
    IN  IF \/ st.size - 1 < AsUsize(c)
           \/ c < 0
           \/ st.size - 1 < AsUsize(r)
           \/ r < 0
        THEN 0
        ELSE IF st.grid[c][r] = Some(player)
             THEN 1 + main_check_direction(st, c, r, x, y, player)
             ELSE 0

RECURSIVE MainWinScan(_, _, _, _)
MainWinScan(st, col, row, d) ==
    IF d > Len(Directions) THEN st.winner
    ELSE LET f == Directions[d][1]
             b == Directions[d][2]
             forward_count == main_check_direction(st, col, row, f[1], f[2], st.turn)
             backward_count == main_check_direction(st, col, row, b[1], b[2], st.turn)
             count == forward_count + backward_count + 1
         IN  IF count >= st.win
             THEN Some(<<"Crosses", Axis(col, row, f, forward_count, b, backward_count)>>)
             ELSE MainWinScan(st, col, row, d + 1)

\* MainState::mouse_button_up_event, with (col, row) the cell computed from
\* the mouse position.
mouse_button_up_event(st, col, row) ==
    IF IsSome(st.winner) THEN [state |-> st, ret |-> "won"]
    ELSE IF ~InBounds(st, col, row) THEN [state |-> st, ret |-> "panic"]
    ELSE IF IsSome(st.grid[col][row]) THEN [state |-> st, ret |-> "occupied"]
    ELSE LET placed == [st EXCEPT !.grid[col][row] = Some(st.turn)]
         IN  [state |-> [placed EXCEPT !.winner = MainWinScan(placed, col, row, 1),
                                       !.turn = Toggle(placed.turn)],
              ret |-> "placed"]

\* MainState::key_up_event(KeyCode::Return)
key_up_event(st) == [state |-> MainStateNew(st.size, st.win), ret |-> "restart"]

(* --------------------------- server.rs: Lobby -------------------------- *)

\* impl Default for GameSettings
GameSettingsDefault == [grid_size |-> None, win_condition |-> None, gravity |-> None]

\* GameSettings::is_valid: all three fields are Some.
is_valid(settings) ==
    IF settings.grid_size = None THEN FALSE
    ELSE IF settings.win_condition = None THEN FALSE
    ELSE IF settings.gravity = None THEN FALSE
    ELSE TRUE

\* The Lobby built in main().  players: HashMap<Uuid, Player>, a function
\* from client ids; spectators: Vec<Client>, the ids in connection order.
LobbyNew ==
    [players |-> <<>>,
     spectators |-> <<>>,
     settings |-> GameSettingsDefault,
     game |-> None]

\* Mutant of connection_made: the branches test the wrong counts, and the
\* second connection gets no role while the third becomes Naughts.
connection_made_off_by_one(lb, id) ==
    LET player_count == Cardinality(DOMAIN lb.players)
        spectator_count == Len(lb.spectators)
        players == IF player_count < 1 THEN (id :> "Crosses")
                   ELSE IF spectator_count = 2 THEN lb.players @@ (id :> "Naughts")
                   ELSE lb.players
    IN  [lb EXCEPT !.players = players, !.spectators = Append(lb.spectators, id)]

\* SharedLobby::connection_made: the lobby once the new client `id` is in.
connection_made(lb, id) ==
    LET player_count == Cardinality(DOMAIN lb.players)
        players == IF player_count < 1 THEN (id :> "Crosses")
                   ELSE IF player_count < 2 THEN lb.players @@ (id :> "Naughts")
                   ELSE lb.players
    IN  [lb EXCEPT !.players = players, !.spectators = Append(lb.spectators, id)]

\* Mutant of Broadcast: the loop stops one client short, and the client
\* that connected last is sent nothing.
BroadcastAllButLast(spectators, state, fail) ==
    LET n == IF fail = 0 THEN Len(spectators) - 1 ELSE fail - 1
    IN  [k \in 1..n |-> [to |-> spectators[k], state |-> state]]

\* The broadcast loop of Lobby::apply over the spectators, with `fail` the
\* position of the send that returns Err (0: every send succeeds).
Broadcast(spectators, state, fail) ==
    LET n == IF fail = 0 THEN Len(spectators) ELSE fail - 1
    IN  [k \in 1..n |-> [to |-> spectators[k], state |-> state]]

\* Mutant of start_game: grid size and win condition change places.
start_game_swapped(settings) ==
    StateNew(Unwrap(settings.win_condition),
             Unwrap(settings.grid_size),
             Unwrap(settings.gravity))

\* StartGame's game: State::new of the three settings.
start_game(settings) ==
    StateNew(Unwrap(settings.grid_size),
             Unwrap(settings.win_condition),
             Unwrap(settings.gravity))

\* Mutant of apply_lobby: a setting that holds a value keeps it, so the
\* first value written wins.
apply_lobby_first_wins(lb, cmd) ==
    IF cmd[1] = "SetWinCondition"
    THEN [lobby |-> IF IsSome(lb.settings.win_condition) THEN lb
                    ELSE [lb EXCEPT !.settings.win_condition = Some(cmd[2])],
          ret |-> "set"]
    ELSE IF cmd[1] = "SetGridSize"
    THEN [lobby |-> IF IsSome(lb.settings.grid_size) THEN lb
                    ELSE [lb EXCEPT !.settings.grid_size = Some(cmd[2])],
          ret |-> "set"]
    ELSE IF cmd[1] = "SetGravity"
    THEN [lobby |-> IF IsSome(lb.settings.gravity) THEN lb
                    ELSE [lb EXCEPT !.settings.gravity = Some(cmd[2])],
          ret |-> "set"]
    ELSE IF cmd[1] = "StartGame"
    THEN IF is_valid(lb.settings) /\ lb.game = None
         THEN [lobby |-> [lb EXCEPT !.game = Some(start_game(lb.settings))],
               ret |-> "started"]
         ELSE [lobby |-> lb, ret |-> "notstarted"]
    ELSE [lobby |-> lb, ret |-> "ignoring"]

\* The lobby arm of Lobby::apply (no game yet).
apply_lobby(lb, cmd) ==
    IF cmd[1] = "SetWinCondition"
    THEN [lobby |-> [lb EXCEPT !.settings.win_condition = Some(cmd[2])], ret |-> "set"]
    ELSE IF cmd[1] = "SetGridSize"
    THEN [lobby |-> [lb EXCEPT !.settings.grid_size = Some(cmd[2])], ret |-> "set"]
    ELSE IF cmd[1] = "SetGravity"
    THEN [lobby |-> [lb EXCEPT !.settings.gravity = Some(cmd[2])], ret |-> "set"]
    ELSE IF cmd[1] = "StartGame"
    THEN IF is_valid(lb.settings) /\ lb.game = None
         THEN [lobby |-> [lb EXCEPT !.game = Some(start_game(lb.settings))],
               ret |-> "started"]
         ELSE [lobby |-> lb, ret |-> "notstarted"]
    ELSE [lobby |-> lb, ret |-> "ignoring"]

\* Mutant of apply_game: the command is simulated for the player who is
\* waiting, so the piece placed carries the mark of the other player.
apply_game_as_opponent(lb, cmd, fail) ==
    LET g == Unwrap(lb.game)
        r == simulate([g EXCEPT !.turn = Toggle(g.turn)], cmd)
    IN  IF r.ret = "panic"
        THEN [lobby |-> [lb EXCEPT !.game = None], out |-> <<>>, ret |-> "panic"]
        ELSE IF fail # 0
        THEN [lobby |-> [lb EXCEPT !.game = None],
              out |-> Broadcast(lb.spectators, r.state, fail),
              ret |-> "senderr"]
        ELSE [lobby |-> [lb EXCEPT !.game = Some(r.state)],
              out |-> Broadcast(lb.spectators, r.state, 0),
              ret |-> r.ret]

\* The game arm of Lobby::apply for the player whose turn it is: simulate,
\* broadcast, put the game back.  self.game.take() has emptied lobby.game;
\* `self.game = Some(game)` is reached only when simulate returns and every
\* send succeeds, so a panic or a failed send leaves lobby.game None.
apply_game(lb, cmd, fail) ==
    LET r == simulate(Unwrap(lb.game), cmd)
    IN  IF r.ret = "panic"
        THEN [lobby |-> [lb EXCEPT !.game = None], out |-> <<>>, ret |-> "panic"]
        ELSE IF fail # 0
        THEN [lobby |-> [lb EXCEPT !.game = None],
              out |-> Broadcast(lb.spectators, r.state, fail),
              ret |-> "senderr"]
        ELSE [lobby |-> [lb EXCEPT !.game = Some(r.state)],
              out |-> Broadcast(lb.spectators, r.state, 0),
              ret |-> r.ret]

\* Mutant of apply: the turn check is missing, and either player's command
\* reaches the game.
apply_no_turn_check(lb, id, cmd, fail) ==
    IF id \notin DOMAIN lb.players
    THEN [lobby |-> lb, out |-> <<>>, ret |-> "noplayer"]
    ELSE IF IsSome(lb.game)
    THEN apply_game(lb, cmd, fail)
    ELSE LET r == apply_lobby(lb, cmd)
         IN  [lobby |-> r.lobby, out |-> <<>>, ret |-> r.ret]

\* Mutant of apply: the settings commands and StartGame go to the lobby arm
\* whether or not a game exists.
apply_settings_any_time(lb, id, cmd, fail) ==
    IF id \notin DOMAIN lb.players
    THEN [lobby |-> lb, out |-> <<>>, ret |-> "noplayer"]
    ELSE IF IsSome(lb.game) /\ cmd[1] \in {"Place", "Restart"}
    THEN IF lb.players[id] = Unwrap(lb.game).turn
         THEN apply_game(lb, cmd, fail)
         ELSE [lobby |-> lb, out |-> <<>>, ret |-> "notturn"]
    ELSE LET r == apply_lobby(lb, cmd)
         IN  [lobby |-> r.lobby, out |-> <<>>, ret |-> r.ret]

\* Mutant of apply: Restart skips the turn test and is simulated for either
\* player.
apply_restart_any_player(lb, id, cmd, fail) ==
    IF id \notin DOMAIN lb.players
    THEN [lobby |-> lb, out |-> <<>>, ret |-> "noplayer"]
    ELSE IF IsSome(lb.game)
    THEN IF lb.players[id] = Unwrap(lb.game).turn \/ cmd = Restart
         THEN apply_game(lb, cmd, fail)
         ELSE [lobby |-> lb, out |-> <<>>, ret |-> "notturn"]
    ELSE LET r == apply_lobby(lb, cmd)
         IN  [lobby |-> r.lobby, out |-> <<>>, ret |-> r.ret]

\* Lobby::apply for the message {id, cmd}.  The result holds the lobby left
\* behind, the messages sent and the way the call ended.
apply(lb, id, cmd, fail) ==
    IF id \notin DOMAIN lb.players
    THEN [lobby |-> lb, out |-> <<>>, ret |-> "noplayer"]
    ELSE IF IsSome(lb.game)
    THEN IF lb.players[id] = Unwrap(lb.game).turn
         THEN apply_game(lb, cmd, fail)
         ELSE [lobby |-> lb, out |-> <<>>, ret |-> "notturn"]
    ELSE LET r == apply_lobby(lb, cmd)
         IN  [lobby |-> r.lobby, out |-> <<>>, ret |-> r.ret]

(* ------------------------------ programs ------------------------------- *)

Sizes == 0..MaxSize
Wins == 0..MaxWin

\* State of a program that is not the one running.
IdleState == StateNew(0, 0, FALSE)
IdleMain == MainStateNew(0, 0)

\* No handler call is in progress and the mutex is free.
IdleHandler == [pc |-> "idle", cmd |-> <<>>, game |-> None, k |-> 0]

InitLock ==
    /\ received = <<>>
    /\ mutex = 0
    /\ handler = [id \in 1..MaxClients |-> IdleHandler]
    /\ produced = None

\* server.rs main(): an empty lobby.
InitServer ==
    /\ prog = "server"
    /\ lobby = LobbyNew
    /\ out = <<>>
    /\ game = IdleState
    /\ sim = IdleState
    /\ main = IdleMain
    /\ ret = "init"
    /\ crashed = FALSE
    /\ InitLock

\* A Game as Lobby::apply creates it: State::new(size, win, gravity).
InitGame ==
    /\ prog = "game"
    /\ lobby = LobbyNew
    /\ out = <<>>
    /\ \E size \in Sizes, win \in Wins, gravity \in BOOLEAN :
            game = StateNew(size, win, gravity)
    /\ sim = IdleState
    /\ main = IdleMain
    /\ ret = "init"
    /\ crashed = FALSE
    /\ InitLock

\* client.rs main(): State::new(size, win, gravity) from the command line.
InitClient ==
    /\ prog = "client"
    /\ lobby = LobbyNew
    /\ out = <<>>
    /\ game = IdleState
    /\ \E size \in Sizes, win \in Wins, gravity \in BOOLEAN :
            sim = StateNew(size, win, gravity)
    /\ main = IdleMain
    /\ ret = "init"
    /\ crashed = FALSE
    /\ InitLock

\* main.rs main(): MainState::new(size, win) from the command line.
InitMain ==
    /\ prog = "main"
    /\ lobby = LobbyNew
    /\ out = <<>>
    /\ game = IdleState
    /\ sim = IdleState
    /\ \E size \in Sizes, win \in Wins : main = MainStateNew(size, win)
    /\ ret = "init"
    /\ crashed = FALSE
    /\ InitLock

\* The sends a call of apply for client `id` may see fail: none (0), or any
\* one of the sends of the broadcast loop, which runs only for the player
\* whose turn it is.
FailPoints(lb, id) ==
    IF /\ id \in DOMAIN lb.players
       /\ IsSome(lb.game)
       /\ lb.players[id] = Unwrap(lb.game).turn
    THEN 0..Len(lb.spectators)
    ELSE {0}

\* A new websocket connection (ws::listen calls the factory).
ConnectionMade ==
    /\ prog = "server"
    /\ ~crashed
    /\ Len(lobby.spectators) < MaxClients
    /\ lobby' = connection_made(lobby, Len(lobby.spectators) + 1)
    /\ out' = <<>>
    /\ ret' = "connected"
    /\ UNCHANGED <<prog, game, sim, main, crashed, lockVars>>

\* Client::on_message for client `id` receiving `cmd`: the lobby mutex is
\* held for the whole call.  A panic inside it ends the server.
OnMessage(id, cmd, fail) ==
    /\ prog = "server"
    /\ ~crashed
    /\ LET r == apply(lobby, id, cmd, fail)
       IN  /\ lobby' = r.lobby
           /\ out' = r.out
           /\ ret' = r.ret
           /\ crashed' = (r.ret = "panic")
    /\ UNCHANGED <<prog, game, sim, main, lockVars>>

\* Game::simulate(cmd)
Simulate(cmd) ==
    /\ prog = "game"
    /\ ~crashed
    /\ LET r == simulate(game, cmd)
       IN  /\ game' = r.state
           /\ ret' = r.ret
           /\ crashed' = (r.ret = "panic")
    /\ UNCHANGED <<prog, lobby, out, sim, main, lockVars>>

\* LocalSimulator::push(cmd)
Push(cmd) ==
    /\ prog = "client"
    /\ ~crashed
    /\ LET r == push(sim, cmd)
       IN  /\ sim' = r.state
           /\ ret' = r.ret
           /\ crashed' = (r.ret = "panic")
    /\ UNCHANGED <<prog, lobby, out, game, main, lockVars>>

\* MainState::mouse_button_up_event on cell (col, row)
MouseButtonUp(col, row) ==
    /\ prog = "main"
    /\ ~crashed
    /\ LET r == mouse_button_up_event(main, col, row)
       IN  /\ main' = r.state
           /\ ret' = r.ret
           /\ crashed' = (r.ret = "panic")
    /\ UNCHANGED <<prog, lobby, out, game, sim, lockVars>>

\* MainState::key_up_event(Return)
KeyUp ==
    /\ prog = "main"
    /\ ~crashed
    /\ LET r == key_up_event(main)
       IN  /\ main' = r.state
           /\ ret' = r.ret
    /\ UNCHANGED <<prog, lobby, out, game, sim, crashed, lockVars>>

\* The server.
Init == InitServer

Next ==
    \/ ConnectionMade
    \/ \E id \in 1..Len(lobby.spectators), cmd \in Commands :
          \E fail \in FailPoints(lobby, id) : OnMessage(id, cmd, fail)

Spec == Init /\ [][Next]_vars

\* The three simulators.
SimInit == InitGame \/ InitClient \/ InitMain

SimNext ==
    \/ \E cmd \in GameCommands(MaxSize) \cup LobbyCommands : Simulate(cmd)
    \/ \E cmd \in GameCommands(MaxSize) : Push(cmd)
    \/ \E col \in 0..MaxSize, row \in 0..MaxSize : MouseButtonUp(col, row)
    \/ KeyUp

SimSpec == SimInit /\ [][SimNext]_vars

(* ------------------ server.rs: the handlers step by step ---------------- *)

\* Mutant of MutexFree: lock() returns although another handler holds the
\* guard.
MutexNotExclusive(m) == TRUE

\* Mutex::lock returns once no handler holds the guard.
MutexFree(m) == m = 0

\* server.rs main(), the handlers followed step by step.
InitHandlers ==
    /\ prog = "handlers"
    /\ lobby = LobbyNew
    /\ out = <<>>
    /\ game = IdleState
    /\ sim = IdleState
    /\ main = IdleMain
    /\ ret = "init"
    /\ crashed = FALSE
    /\ InitLock

\* LockSpec follows a run up to a panic or to the first send that returns an
\* error; what the server does after a failed send is followed in Spec.
Running == prog = "handlers" /\ ~crashed /\ ret # "senderr"

\* The call is the one of the player whose turn it is, on an existing game.
TurnCall(lb, id) ==
    /\ id \in DOMAIN lb.players
    /\ IsSome(lb.game)
    /\ lb.players[id] = Unwrap(lb.game).turn

\* SharedLobby::connection_made, which locks the lobby for its update.
Accept ==
    /\ Running
    /\ MutexFree(mutex)
    /\ Len(lobby.spectators) < MaxClients
    /\ lobby' = connection_made(lobby, Len(lobby.spectators) + 1)
    /\ received' = Append(received, None)
    /\ out' = <<>>
    /\ ret' = "connected"
    /\ UNCHANGED <<prog, game, sim, main, crashed, mutex, handler, produced>>

\* Client::on_message for client `id` receiving `cmd`: lock() and the head
\* of Lobby::apply.  The turn player's call takes the game out of the lobby
\* (self.game.take()) and goes on to simulate; every other call runs to its
\* end and drops the guard.
Lock(id, cmd) ==
    /\ Running
    /\ handler[id].pc = "idle"
    /\ MutexFree(mutex)
    /\ out' = <<>>
    /\ IF TurnCall(lobby, id)
       THEN /\ mutex' = id
            /\ lobby' = [lobby EXCEPT !.game = None]
            /\ handler' = [handler EXCEPT ![id] =
                              [pc |-> "simulate", cmd |-> cmd, game |-> lobby.game, k |-> 0]]
            /\ ret' = "locked"
       ELSE /\ lobby' = apply(lobby, id, cmd, 0).lobby
            /\ ret' = apply(lobby, id, cmd, 0).ret
            /\ UNCHANGED <<mutex, handler>>
    /\ UNCHANGED <<prog, game, sim, main, crashed, received, produced>>

\* Game::simulate up to the write of the piece on the grid.  A call that
\* writes no piece (early return, Restart, `_ => {}`) ends here.
SimulateWrite(id) ==
    /\ Running
    /\ handler[id].pc = "simulate"
    /\ LET st == Unwrap(handler[id].game)
           cmd == handler[id].cmd
           p == IF st.gravity THEN place_gravity(st, cmd[2], cmd[3])
                              ELSE place_cell(st, cmd[2], cmd[3])
           r == simulate(st, cmd)
       IN  IF r.ret = "panic"
           THEN /\ crashed' = TRUE
                /\ ret' = "panic"
                /\ UNCHANGED <<handler, produced>>
           ELSE IF r.ret = "placed"
           THEN /\ handler' = [handler EXCEPT ![id] =
                                  [pc |-> "settle", cmd |-> Place(cmd[2], p.row),
                                   game |-> Some(p.state), k |-> 0]]
                /\ ret' = "written"
                /\ UNCHANGED <<crashed, produced>>
           ELSE /\ handler' = [handler EXCEPT ![id] =
                                  [pc |-> "send", cmd |-> <<>>, game |-> Some(r.state), k |-> 1]]
                /\ produced' = Some(r.state)
                /\ ret' = r.ret
                /\ UNCHANGED crashed
    /\ UNCHANGED <<prog, lobby, out, game, sim, main, received, mutex>>

\* Game::simulate from the win check to its end: the loop over the direction
\* pairs and the turn toggle.
SimulateSettle(id) ==
    /\ Running
    /\ handler[id].pc = "settle"
    /\ LET st == Settle(Unwrap(handler[id].game), handler[id].cmd[2], handler[id].cmd[3])
       IN  /\ handler' = [handler EXCEPT ![id] =
                             [pc |-> "send", cmd |-> <<>>, game |-> Some(st), k |-> 1]]
           /\ produced' = Some(st)
    /\ ret' = "placed"
    /\ UNCHANGED <<prog, lobby, out, game, sim, main, crashed, received, mutex>>

\* One round of the broadcast loop of Lobby::apply: the state is sent to
\* spectators[k].  A send that returns an error ends the call (`?`): the
\* guard is dropped and the game taken out of the lobby is dropped with it.
Send(id, fails) ==
    /\ Running
    /\ handler[id].pc = "send"
    /\ handler[id].k <= Len(lobby.spectators)
    /\ LET k == handler[id].k
           st == Unwrap(handler[id].game)
       IN  IF fails
           THEN /\ handler' = [handler EXCEPT ![id] = IdleHandler]
                /\ mutex' = 0
                /\ ret' = "senderr"
                /\ UNCHANGED <<out, received>>
           ELSE /\ out' = Append(out, [to |-> lobby.spectators[k], state |-> st])
                /\ received' = [received EXCEPT ![lobby.spectators[k]] = Some(st)]
                /\ handler' = [handler EXCEPT ![id].k = k + 1]
                /\ UNCHANGED <<mutex, ret>>
    /\ UNCHANGED <<prog, lobby, game, sim, main, crashed, produced>>

\* The end of Lobby::apply after the loop: self.game = Some(game), and the
\* guard is dropped as on_message returns.
PutBack(id) ==
    /\ Running
    /\ handler[id].pc = "send"
    /\ handler[id].k > Len(lobby.spectators)
    /\ lobby' = [lobby EXCEPT !.game = handler[id].game]
    /\ handler' = [handler EXCEPT ![id] = IdleHandler]
    /\ mutex' = 0
    /\ UNCHANGED <<prog, out, game, sim, main, ret, crashed, received, produced>>

LockNext ==
    \/ Accept
    \/ \E id \in 1..Len(lobby.spectators), cmd \in Commands : Lock(id, cmd)
    \/ \E id \in 1..MaxClients : SimulateWrite(id)
    \/ \E id \in 1..MaxClients : SimulateSettle(id)
    \/ \E id \in 1..MaxClients, fails \in BOOLEAN : Send(id, fails)
    \/ \E id \in 1..MaxClients : PutBack(id)

LockSpec == InitHandlers /\ [][LockNext]_vars

(* ------------------------------- claims -------------------------------- *)

\* Cell (c, r) of st holds player p's mark (FALSE outside the grid).
Holds(st, c, r, p) ==
    /\ c \in 0..(st.size - 1)
    /\ r \in 0..(st.size - 1)
    /\ st.grid[c][r] = Some(p)

\* The four lines through a cell: row, column, diagonal, anti-diagonal.
Lines == {<<1, 0>>, <<0, 1>>, <<1, 1>>, <<1, -1>>}

\* st.win consecutive cells of one player lie somewhere on the grid.
HasRun(st) ==
    \E p \in Player, c \in 0..(st.size - 1), r \in 0..(st.size - 1), l \in Lines :
        \A k \in 0..(st.win - 1) : Holds(st, c + k * l[1], r + k * l[2], p)

WinnerIffRun(st) == st.win >= 1 => (IsSome(st.winner) <=> HasRun(st))

\* C1: for win >= 1, after any sequence of Place and Restart applied by
\* Game::simulate or by LocalSimulator::push, the winner is set if and only
\* if the grid holds at least `win` consecutive marks of one player along a
\* row, a column or a diagonal.
C1_WinnerIffRun ==
    /\ prog = "game" => WinnerIffRun(game)
    /\ prog = "client" => WinnerIffRun(sim)

\* A won game on the 3x3 grid with three in a row needed.
C1_Witness ==
    /\ prog = "game"
    /\ game.size = 3
    /\ game.win = 3
    /\ ret = "placed"
    /\ IsSome(game.winner)
    /\ HasRun(game)

\* The player who placed the last piece: the turn is toggled after every
\* placement.
LastPlacer(st) == Toggle(st.turn)

WinnerIsLastPlacer(st) == IsSome(st.winner) => Unwrap(st.winner)[1] = LastPlacer(st)

\* C2: when a Place completes a run of at least `win` marks, the player
\* recorded in the winner field is the player who placed the last piece
\* (in Game::simulate, LocalSimulator::push and MainState's mouse handler).
C2_WinnerIsLastPlacer ==
    /\ prog = "game" => WinnerIsLastPlacer(game)
    /\ prog = "client" => WinnerIsLastPlacer(sim)
    /\ prog = "main" => WinnerIsLastPlacer(main)

\* The rows of column col that are empty.
EmptyRows(st, col) == {r \in 0..(st.size - 1) : st.grid[col][r] = None}

\* The lowest empty cell of a column: the empty cell with the largest row.
LowestEmpty(st, col) ==
    CHOOSE r \in EmptyRows(st, col) : \A q \in EmptyRows(st, col) : q <= r

\* Place(col, row) as handler `op` applies it to st falls to the lowest empty
\* cell of the column, whatever row is.
FallsToLowest(op(_, _), st) ==
    (st.gravity /\ st.winner = None) =>
        \A col \in 0..(st.size - 1) :
            EmptyRows(st, col) # {} =>
                \A row \in 0..MaxSize :
                    LET r == op(st, Place(col, row))
                    IN  /\ r.ret = "placed"
                        /\ r.state.grid =
                              [st.grid EXCEPT ![col][LowestEmpty(st, col)] = Some(st.turn)]
                        /\ \A other \in 0..MaxSize : op(st, Place(col, other)) = r

\* C3: in gravity mode with no winner, Place(col, row) on a column that is
\* not full puts the current player's mark in the lowest empty cell of the
\* column, whatever row is; two Place commands with the same col give the
\* same next state.
C3_GravityFallsToLowest ==
    /\ prog = "game" => FallsToLowest(simulate, game)
    /\ prog = "client" => FallsToLowest(push, sim)

\* A gravity game in which two pieces are stacked at the bottom of a column
\* whose top cell is still empty.
C3_Witness ==
    /\ prog = "game"
    /\ game.gravity
    /\ game.size = 3
    /\ game.winner = None
    /\ ret = "placed"
    /\ \E col \in 0..2 :
          /\ EmptyRows(game, col) = {0}
          /\ LowestEmpty(game, col) = 0

\* C4: without gravity, Place(col, row) on a cell that already holds a mark
\* is a non-move: grid, turn and winner are unchanged and the mark is not
\* overwritten (Game::simulate and MainState's mouse handler).
C4_OccupiedIsNonMove ==
    /\ (prog = "game" /\ ~game.gravity) =>
          \A col \in 0..(game.size - 1), row \in 0..(game.size - 1) :
              IsSome(game.grid[col][row]) =>
                  /\ simulate(game, Place(col, row)).state = game
                  /\ simulate(game, Place(col, row)).ret \in {"occupied", "won"}
    /\ prog = "main" =>
          \A col \in 0..(main.size - 1), row \in 0..(main.size - 1) :
              IsSome(main.grid[col][row]) =>
                  /\ mouse_button_up_event(main, col, row).state = main
                  /\ mouse_button_up_event(main, col, row).ret \in {"occupied", "won"}

\* A Place on an occupied cell has just been turned down.
C4_Witness ==
    /\ prog = "game"
    /\ ~game.gravity
    /\ ret = "occupied"
    /\ \E col \in 0..(game.size - 1), row \in 0..(game.size - 1) :
          /\ IsSome(game.grid[col][row])
          /\ simulate(game, Place(col, row)).state = game

\* C5: once the winner is set, every Place leaves grid, turn and winner
\* unchanged; only Restart changes the state of a won game.
C5_FrozenAfterWin ==
    /\ (prog = "game" /\ IsSome(game.winner)) =>
          \A cmd \in (GameCommands(MaxSize) \cup LobbyCommands) \ {Restart} :
              /\ simulate(game, cmd).state = game
              /\ cmd[1] = "Place" => simulate(game, cmd).ret = "won"
    /\ (prog = "client" /\ IsSome(sim.winner)) =>
          \A cmd \in GameCommands(MaxSize) \ {Restart} :
              /\ push(sim, cmd).state = sim
              /\ push(sim, cmd).ret = "won"
    /\ (prog = "main" /\ IsSome(main.winner)) =>
          \A col \in 0..MaxSize, row \in 0..MaxSize :
              /\ mouse_button_up_event(main, col, row).state = main
              /\ mouse_button_up_event(main, col, row).ret = "won"

\* A Place has just been turned down because the game is won, on a grid
\* that still has an empty cell.
C5_Witness ==
    /\ prog = "game"
    /\ IsSome(game.winner)
    /\ ret = "won"
    /\ \E col \in 0..(game.size - 1), row \in 0..(game.size - 1) :
          game.grid[col][row] = None

\* The number of cells of st that hold player p's mark.
Marks(st, p) ==
    Cardinality({cell \in (0..(st.size - 1)) \X (0..(st.size - 1)) :
                    st.grid[cell[1]][cell[2]] = Some(p)})

TurnsAlternate(st) ==
    /\ Marks(st, "Naughts") - Marks(st, "Crosses") \in {0, 1}
    /\ st.turn = "Naughts" <=> Marks(st, "Naughts") = Marks(st, "Crosses")

\* Handler `op` toggles the turn on an accepted Place and keeps it on a
\* rejected one.
TogglesOnPlacement(op(_, _), st) ==
    \A cmd \in GameCommands(MaxSize) \ {Restart} :
        LET r == op(st, cmd)
        IN  r.state.turn = IF r.ret = "placed" THEN Toggle(st.turn) ELSE st.turn

\* C6: turns alternate strictly, Naughts first: in every reachable state the
\* number of Naughts marks minus the number of Crosses marks is 0 or 1, and
\* the turn is Naughts exactly when the two counts are equal.
C6_TurnsAlternate ==
    /\ prog = "game" => TurnsAlternate(game) /\ TogglesOnPlacement(simulate, game)
    /\ prog = "client" => TurnsAlternate(sim) /\ TogglesOnPlacement(push, sim)

\* A winning placement by Naughts has toggled the turn to Crosses.
C6_Witness ==
    /\ prog = "game"
    /\ game.win = 3
    /\ IsSome(game.winner)
    /\ ret = "placed"
    /\ Marks(game, "Naughts") = Marks(game, "Crosses") + 1
    /\ game.turn = "Crosses"

\* st is the state a fresh game of r's size has: every cell empty, no
\* winner, Naughts to move.
IsInitialOf(r, st) ==
    /\ r.size = st.size
    /\ r.win = st.win
    /\ DOMAIN r.grid = 0..(st.size - 1)
    /\ \A c \in 0..(st.size - 1) :
          /\ DOMAIN r.grid[c] = 0..(st.size - 1)
          /\ \A q \in 0..(st.size - 1) : r.grid[c][q] = None
    /\ r.winner = None
    /\ r.turn = "Naughts"

\* C7: Restart in any state yields the initial state of the same game, with
\* size, win and gravity unchanged, and a second Restart changes nothing.
C7_RestartResets ==
    /\ prog = "game" =>
          LET r == simulate(game, Restart).state
          IN  /\ IsInitialOf(r, game)
              /\ r.gravity = game.gravity
              /\ simulate(r, Restart).state = r
    /\ prog = "client" =>
          LET r == push(sim, Restart).state
          IN  /\ IsInitialOf(r, sim)
              /\ r.gravity = sim.gravity
              /\ push(r, Restart).state = r
    /\ prog = "main" =>
          LET r == key_up_event(main).state
          IN  /\ IsInitialOf(r, main)
              /\ key_up_event(r).state = r

\* A won game, Crosses to move, whose Restart gives the empty grid back
\* with Naughts to move.
C7_Witness ==
    /\ prog = "game"
    /\ game.size = 3
    /\ IsSome(game.winner)
    /\ game.turn = "Crosses"
    /\ simulate(game, Restart).state.turn = "Naughts"
    /\ simulate(game, Restart).state.winner = None

\* The clients connected to the server.
Clients == 1..Len(lobby.spectators)

\* Grid size, win condition and gravity have all three been set.
AllSet(settings) ==
    /\ IsSome(settings.grid_size)
    /\ IsSome(settings.win_condition)
    /\ IsSome(settings.gravity)

\* g is a fresh game of the given size, win and gravity.
IsFreshGame(g, size, win, gravity) ==
    /\ IsInitialOf(g, [size |-> size, win |-> win])
    /\ g.gravity = gravity

\* C8: the lobby holds no game until a player sends StartGame while grid
\* size, win condition and gravity are all set; StartGame with a setting
\* missing changes nothing; Place and Restart before the game exists are
\* ignored; the game created has the size, win and gravity last set, an
\* empty grid, no winner and turn Naughts.
C8_StartGame ==
    (prog = "server" /\ lobby.game = None) =>
        /\ Len(lobby.spectators) < MaxClients =>
              connection_made(lobby, Len(lobby.spectators) + 1).game = None
        /\ \A id \in Clients, cmd \in Commands :
              LET r == apply(lobby, id, cmd, 0)
              IN  /\ IsSome(r.lobby.game) <=>
                        /\ cmd = StartGame
                        /\ id \in DOMAIN lobby.players
                        /\ AllSet(lobby.settings)
                  /\ IsSome(r.lobby.game) =>
                        /\ IsFreshGame(Unwrap(r.lobby.game),
                                       Unwrap(lobby.settings.grid_size),
                                       Unwrap(lobby.settings.win_condition),
                                       Unwrap(lobby.settings.gravity))
                        /\ r.lobby.settings = lobby.settings
                  /\ (cmd = StartGame /\ ~AllSet(lobby.settings)) => r.lobby = lobby
                  /\ cmd[1] \in {"Place", "Restart"} => r.lobby = lobby
                  /\ r.out = <<>>
        \* the values last set are the ones the game gets
        /\ \A id \in DOMAIN lobby.players :
              /\ \A n \in 0..MaxLobbySize :
                    LET set == apply(lobby, id, SetGridSize(n), 0).lobby
                        r == apply(set, id, StartGame, 0)
                    IN  IsSome(r.lobby.game) => Unwrap(r.lobby.game).size = n
              /\ \A n \in 0..MaxWin :
                    LET set == apply(lobby, id, SetWinCondition(n), 0).lobby
                        r == apply(set, id, StartGame, 0)
                    IN  IsSome(r.lobby.game) => Unwrap(r.lobby.game).win = n
              /\ \A b \in BOOLEAN :
                    LET set == apply(lobby, id, SetGravity(b), 0).lobby
                        r == apply(set, id, StartGame, 0)
                    IN  IsSome(r.lobby.game) => Unwrap(r.lobby.game).gravity = b

\* StartGame has just created a 2x2 game with win condition 3 and gravity.
C8_Witness ==
    /\ prog = "server"
    /\ ret = "started"
    /\ lobby.settings.grid_size = Some(2)
    /\ lobby.settings.win_condition = Some(3)
    /\ lobby.settings.gravity = Some(TRUE)
    /\ lobby.game = Some(StateNew(2, 3, TRUE))

\* C9: while a game exists, a command from the player whose turn it is not,
\* or from a client without a player role, leaves the lobby (the game state
\* included) unchanged and sends no message: only the client whose mark
\* equals state.turn can change the game state.
C9_OnlyTurnPlayer ==
    (prog = "server" /\ IsSome(lobby.game)) =>
        \A id \in Clients, cmd \in Commands, fail \in 0..Len(lobby.spectators) :
            (id \notin DOMAIN lobby.players \/ lobby.players[id] # Unwrap(lobby.game).turn) =>
                /\ apply(lobby, id, cmd, fail).lobby = lobby
                /\ apply(lobby, id, cmd, fail).out = <<>>

\* A game in progress with a spectator connected, in which the player whose
\* turn it was not has just had a command turned down.
C9_Witness ==
    /\ prog = "server"
    /\ IsSome(lobby.game)
    /\ Len(lobby.spectators) = 3
    /\ ret = "notturn"
    /\ out = <<>>
    /\ Marks(Unwrap(lobby.game), "Naughts") = 1

\* The messages sent are one per connected client, each carrying state.
SentOnceToAll(sent, state) ==
    /\ \A id \in Clients : Cardinality({k \in DOMAIN sent : sent[k].to = id}) = 1
    /\ \A k \in DOMAIN sent : sent[k].to \in Clients /\ sent[k].state = state

\* C10: each time the server applies a command that changes the game state,
\* and no send fails, the resulting state is sent exactly once to every
\* client connected at that moment, players and spectators alike, within the
\* handler call (so before the next command is processed).
C10_BroadcastOnChange ==
    prog = "server" =>
        /\ IsSome(lobby.game) =>
              \A id \in Clients, cmd \in Commands :
                  LET r == apply(lobby, id, cmd, 0)
                  IN  (IsSome(r.lobby.game) /\ r.lobby.game # lobby.game) =>
                          SentOnceToAll(r.out, Unwrap(r.lobby.game))
        /\ ret \in {"placed", "restart"} =>
              /\ IsSome(lobby.game)
              /\ SentOnceToAll(out, Unwrap(lobby.game))

\* A placement has just been broadcast to the two players and to a
\* spectator.
C10_Witness ==
    /\ prog = "server"
    /\ ret = "placed"
    /\ Len(lobby.spectators) = 3
    /\ 3 \notin DOMAIN lobby.players
    /\ Len(out) = 3
    /\ \E k \in DOMAIN out : out[k].to = 3 /\ out[k].state = Unwrap(lobby.game)

\* No handler call is in progress.
Quiet == mutex = 0 /\ \A id \in DOMAIN handler : handler[id].pc = "idle"

\* C11: clients are reconciled with the server: whenever a game exists and
\* every message sent has been delivered, the last state received by every
\* connected client equals the server's current game state, right after
\* StartGame and for clients that connected after the game started included.
C11_Reconciled ==
    (prog = "handlers" /\ Quiet /\ IsSome(lobby.game)) =>
        \A c \in Clients : received[c] = lobby.game

\* A state as a whole command leaves it: the win check and the turn toggle
\* have run for every piece on the grid.
Whole(st) == TurnsAlternate(st) /\ WinnerIffRun(st)

\* At most one handler call is in progress, and it holds the mutex.
OneAtATime ==
    \A a \in DOMAIN handler :
        handler[a].pc # "idle" =>
            /\ mutex = a
            /\ \A b \in DOMAIN handler : handler[b].pc # "idle" => b = a

\* C12: handlers of different clients are serialized by the lobby mutex.
\* Each command is applied and its broadcast issued atomically: while a call
\* is in progress no other call runs and the lobby shows no game; the states
\* of the server are results of whole commands; no client is ever sent a
\* state in which a piece was placed but the win check or the turn toggle
\* had not run; and every message carries the state the server produced
\* last, so each client is sent the states in the order of their production.
C12_Serialized ==
    prog = "handlers" =>
        /\ OneAtATime
        /\ mutex # 0 => lobby.game = None
        /\ \A id \in DOMAIN handler :
              handler[id].pc = "send" => handler[id].game = produced
        /\ IsSome(lobby.game) => Whole(Unwrap(lobby.game))
        /\ IsSome(produced) => Whole(Unwrap(produced))
        /\ \A k \in DOMAIN out : Whole(out[k].state) /\ Some(out[k].state) = produced
        /\ \A c \in DOMAIN received :
              IsSome(received[c]) => Whole(Unwrap(received[c]))

\* A placement is being broadcast to three clients: the first has been sent
\* the state, the two others have not yet, and the sender holds the mutex
\* while a piece written to the grid has been settled.
C12_Witness ==
    /\ prog = "handlers"
    /\ Len(lobby.spectators) = 3
    /\ ret = "placed"
    /\ \E id \in DOMAIN handler :
          /\ mutex = id
          /\ handler[id].pc = "send"
          /\ handler[id].k = 2
          /\ Len(out) = 1
          /\ Marks(Unwrap(handler[id].game), "Naughts") = 1

\* C13: if sending the state to one client fails during a broadcast,
\* Lobby::apply returns the error and the lobby still holds the game, with
\* the state the command produced: the game is not lost and the lobby does
\* not fall back to the pre-game state.
C13_GameKeptOnSendError ==
    (prog = "server" /\ IsSome(lobby.game)) =>
        \A id \in Clients, cmd \in Commands :
            \A fail \in FailPoints(lobby, id) \ {0} :
                LET r == apply(lobby, id, cmd, fail)
                IN  r.ret = "panic" \/
                        /\ r.ret = "senderr"
                        /\ r.lobby.game = Some(simulate(Unwrap(lobby.game), cmd).state)

\* Place commands with a coordinate outside the grid of state st: col >= size,
\* or row >= size without gravity (every Place when size is 0).
OutsidePlaces(st) ==
    {cmd \in GameCommands(MaxLobbySize) \ {Restart} :
        \/ cmd[2] >= st.size
        \/ ~st.gravity /\ cmd[3] >= st.size}

\* C14: a Place received by the server whose column or row lies outside the
\* grid is treated as a non-move: the game state is unchanged and the server
\* goes on processing later commands from all clients.
C14_OutsideIsNonMove ==
    prog = "server" =>
        /\ ~crashed
        /\ IsSome(lobby.game) =>
              \A id \in Clients, cmd \in OutsidePlaces(Unwrap(lobby.game)) :
                  LET r == apply(lobby, id, cmd, 0)
                  IN  r.ret # "panic" /\ r.lobby.game = lobby.game

\* A State seen as a MainState (which has no gravity field), and back.
AsMain(st) ==
    [winner |-> st.winner, turn |-> st.turn, grid |-> st.grid, size |-> st.size, win |-> st.win]

AsState(ms) ==
    [winner |-> ms.winner, turn |-> ms.turn, grid |-> ms.grid, size |-> ms.size,
     win |-> ms.win, gravity |-> FALSE]

\* The command as MainState receives it: a click on cell (col, row), or the
\* Return key for Restart.
MainStep(ms, cmd) ==
    IF cmd = Restart THEN key_up_event(ms)
    ELSE mouse_button_up_event(ms, cmd[2], cmd[3])

\* Two results agree: same grid, turn and winner, and the same way out.
SameResult(a, b) ==
    /\ a.state.grid = b.state.grid
    /\ a.state.turn = b.state.turn
    /\ a.state.winner = b.state.winner
    /\ a.ret = b.ret

\* From state st the three simulators take every command the same way.
Agree(st) ==
    \A cmd \in GameCommands(MaxSize) :
        /\ SameResult(simulate(st, cmd), push(st, cmd))
        /\ push(st, cmd).state = simulate(st, cmd).state
        /\ ~st.gravity =>
              /\ SameResult(simulate(st, cmd), MainStep(AsMain(st), cmd))
              /\ SameResult(push(st, cmd), MainStep(AsMain(st), cmd))

\* C15: the three implementations of the simulator agree: for every state
\* and every Place or Restart, Game::simulate and LocalSimulator::push
\* produce the same next grid, turn and winner, and with gravity off both
\* agree with the mouse and key handlers of MainState.
C15_SimulatorsAgree ==
    /\ prog = "game" => Agree(game)
    /\ prog = "client" => Agree(sim)
    /\ prog = "main" => Agree(AsState(main))

\* A state of MainState with marks on the grid where a click on an empty
\* cell is a placement, in main.rs as in the server and in the client.
C15_Witness ==
    /\ prog = "main"
    /\ main.size = 3
    /\ Marks(main, "Crosses") = 2
    /\ ret = "placed"
    /\ MainStep(main, Place(1, 1)).ret = "placed"
    /\ simulate(AsState(main), Place(1, 1)).ret = "placed"
    /\ push(AsState(main), Place(1, 1)).ret = "placed"

\* No mark has an empty cell below it in its column.
NoFloatingMark(st) ==
    \A col \in 0..(st.size - 1), r \in 0..(st.size - 2) :
        IsSome(st.grid[col][r]) => IsSome(st.grid[col][r + 1])

\* The top cell of a column is occupied exactly when the whole column is.
TopCellTellsFull(st) ==
    \A col \in 0..(st.size - 1) :
        IsSome(st.grid[col][0]) <=> (\A r \in 0..(st.size - 1) : IsSome(st.grid[col][r]))

\* With no winner, handler `op` rejects Place(col, _) exactly when column
\* col is full, and places a piece otherwise.
RejectsIffFull(op(_, _), st) ==
    st.winner = None =>
        \A col \in 0..(st.size - 1), row \in 0..MaxSize :
            LET r == op(st, Place(col, row))
            IN  IF EmptyRows(st, col) = {}
                THEN r.ret = "full" /\ r.state = st
                ELSE r.ret = "placed" /\ r.state.grid # st.grid

\* C16: in gravity mode a Place(col, _) with no winner is rejected exactly
\* when column col is completely full: in every reachable gravity-mode state
\* no mark has an empty cell below it in its column, so testing the top cell
\* grid[col][0] is the same as testing that every cell of the column is
\* occupied.
C16_FullColumnTest ==
    /\ (prog = "game" /\ game.gravity) =>
          NoFloatingMark(game) /\ TopCellTellsFull(game) /\ RejectsIffFull(simulate, game)
    /\ (prog = "client" /\ sim.gravity) =>
          NoFloatingMark(sim) /\ TopCellTellsFull(sim) /\ RejectsIffFull(push, sim)

\* A gravity game on the 3x3 grid without a winner: a Place on a full column
\* has just been rejected while another column holds a piece with cells to
\* spare above it.
C16_Witness ==
    /\ prog = "game"
    /\ game.gravity
    /\ game.size = 3
    /\ game.winner = None
    /\ ret = "full"
    /\ \E col \in 0..2 : EmptyRows(game, col) = {}
    /\ \E col \in 0..2 : IsSome(game.grid[col][2]) /\ game.grid[col][0] = None

\* n is the length of the run of player p's marks that starts one step away
\* from (col, row) in direction (x, y): the n cells after (col, row) hold p's
\* mark and the next one is empty, holds the other mark or is outside.
IsRunLength(st, col, row, x, y, p, n) ==
    /\ \A i \in 1..n : Holds(st, col + i * x, row + i * y, p)
    /\ ~Holds(st, col + (n + 1) * x, row + (n + 1) * y, p)

\* Copy `cd` of check_direction on grid st, in the directions of set dirs:
\* from every cell of the grid and for both players it returns the length of
\* the run, and reads cells of the grid only.
CountsRun(cd(_, _, _, _, _, _), st, dirs) ==
    st.size >= 1 =>
        \A col \in 0..(st.size - 1), row \in 0..(st.size - 1), d \in dirs, p \in Player :
            /\ check_direction_returns(st, col, row, d[1], d[2], p)
            /\ LET n == cd(st, col, row, d[1], d[2], p)
               IN  /\ IsRunLength(st, col, row, d[1], d[2], p, n)
                   /\ \A cell \in check_direction_reads(st, col, row, d[1], d[2], n) :
                          InBounds(st, cell[1], cell[2])

\* Directions with components in {-1, 0, 1}, and those that move.
UnitSteps == {-1, 0, 1} \X {-1, 0, 1}
MovingSteps == UnitSteps \ {<<0, 0>>}

\* C17 as stated: for a grid of size >= 1, a cell (col, row) inside the grid
\* and a direction (x, y) with components in {-1, 0, 1}, check_direction
\* returns the number of consecutive cells holding `player`'s mark starting
\* one step away from (col, row), not counting (col, row), stopping at the
\* first cell that is empty, holds the other mark or lies outside the grid;
\* it never reads a cell outside the grid.
C17_CountsRun ==
    /\ prog = "game" =>
          /\ CountsRun(check_direction, game, UnitSteps)
          /\ CountsRun(lib_check_direction, game, UnitSteps)
    /\ prog = "client" => CountsRun(push_check_direction, sim, UnitSteps)
    /\ prog = "main" => CountsRun(main_check_direction, main, UnitSteps)

\* C17 amended: the same for every direction (x, y) with components in
\* {-1, 0, 1} other than (0, 0).
C17_CountsRunMoving ==
    /\ prog = "game" =>
          /\ CountsRun(check_direction, game, MovingSteps)
          /\ CountsRun(lib_check_direction, game, MovingSteps)
    /\ prog = "client" => CountsRun(push_check_direction, sim, MovingSteps)
    /\ prog = "main" => CountsRun(main_check_direction, main, MovingSteps)

\* A 3x3 grid on which check_direction counts two marks of Naughts from cell
\* (0, 0) along the row and stops at the border, and none along the column
\* where the next cell holds a mark of Crosses.
C17_Witness ==
    /\ prog = "game"
    /\ game.size = 3
    /\ check_direction(game, 0, 0, 1, 0, "Naughts") = 2
    /\ game.grid[0][1] = Some("Crosses")
    /\ check_direction(game, 0, 0, 0, 1, "Naughts") = 0

\* Cells a and b delimit a run of player p's marks on grid st: both are
\* cells of the grid, b is reached from a by n steps along one row, column
\* or diagonal, every cell from a to b holds p's mark, and the run is at
\* least st.win cells long.
DelimitRun(st, a, b, p) ==
    /\ InBounds(st, a[1], a[2])
    /\ InBounds(st, b[1], b[2])
    /\ Holds(st, a[1], a[2], p)
    /\ Holds(st, b[1], b[2], p)
    /\ \E d \in MovingSteps, n \in 0..MaxSize :
          /\ b = <<a[1] + n * d[1], a[2] + n * d[2]>>
          /\ \A i \in 0..n : Holds(st, a[1] + i * d[1], a[2] + i * d[2], p)
          /\ n + 1 >= st.win

\* Cell `cell` lies on the segment from a to b.
OnSegment(a, b, cell) ==
    \E d \in MovingSteps, n \in 0..MaxSize, i \in 0..MaxSize :
        /\ i <= n
        /\ b = <<a[1] + n * d[1], a[2] + n * d[2]>>
        /\ cell = <<a[1] + i * d[1], a[2] + i * d[2]>>

\* The cells of the grid whose content differs between st and nx.
Changed(st, nx) ==
    {cell \in (0..(st.size - 1)) \X (0..(st.size - 1)) :
        st.grid[cell[1]][cell[2]] # nx.grid[cell[1]][cell[2]]}

\* The winner recorded in st delimits a run of the last placer's marks.
WinnerDelimitsRun(st) ==
    IsSome(st.winner) =>
        LET ends == Unwrap(st.winner)[2]
        IN  DelimitRun(st, ends[1], ends[2], LastPlacer(st))

\* A placement by handler `op` that records a winner records the two ends
\* of a run of the placer's marks through the placed cell.
WinningPlacement(op(_, _), st) ==
    \A cmd \in GameCommands(MaxSize) \ {Restart} :
        LET r == op(st, cmd)
        IN  (st.winner = None /\ r.ret = "placed" /\ IsSome(r.state.winner)) =>
                LET ends == Unwrap(r.state.winner)[2]
                IN  /\ DelimitRun(r.state, ends[1], ends[2], st.turn)
                    /\ \A cell \in Changed(st, r.state) : OnSegment(ends[1], ends[2], cell)
                    /\ Cardinality(Changed(st, r.state)) = 1

\* C18: when a winner is recorded, the two stored coordinates are the start
\* cell and the end cell of the winning run: both lie inside the grid, both
\* hold the mark of the player who made the winning placement, they lie on
\* one row, column or diagonal through the placed cell, every cell between
\* them holds that same mark, and the run they delimit is at least `win`
\* cells long.
C18_WinnerCoordinates ==
    /\ prog = "game" => WinnerDelimitsRun(game) /\ WinningPlacement(simulate, game)
    /\ prog = "client" => WinnerDelimitsRun(sim) /\ WinningPlacement(push, sim)

\* A game won along the main diagonal of the 3x3 grid: the ends recorded are
\* the two corners.
C18_Witness ==
    /\ prog = "game"
    /\ game.size = 3
    /\ game.win = 3
    /\ ret = "placed"
    /\ IsSome(game.winner)
    /\ Unwrap(game.winner)[2] = << <<2, 2>>, <<0, 0>> >>

\* C19: the server sends a state to clients only on change: a command that
\* leaves the game state unchanged (a Place on an occupied cell or a full
\* column, a Place after a win, a lobby command received while the game is
\* running) causes no state message to be sent.
C19_SendOnlyOnChange ==
    (prog = "server" /\ IsSome(lobby.game)) =>
        \A id \in Clients, cmd \in Commands :
            LET r == apply(lobby, id, cmd, 0)
            IN  r.lobby.game = lobby.game => r.out = <<>>

\* The size, win and gravity of a game.
Config(st) == <<st.size, st.win, st.gravity>>

\* The three values as the lobby settings store them.
Stored(settings) ==
    <<settings.grid_size, settings.win_condition, settings.gravity>>

\* C20: once a game exists, its size, win and gravity never change:
\* SetGridSize, SetWinCondition, SetGravity and StartGame received while the
\* game is running change neither the running game nor the stored lobby
\* settings, Restart keeps the three values, and no command whose broadcast
\* is delivered returns the lobby to the pre-game state (a call either ends
\* the server by a panic or leaves a game of the same size, win and gravity).
C20_ConfigFrozen ==
    (prog = "server" /\ ~crashed /\ IsSome(lobby.game)) =>
        LET st == Unwrap(lobby.game)
        IN  /\ Stored(lobby.settings) = <<Some(st.size), Some(st.win), Some(st.gravity)>>
            /\ \A id \in Clients, cmd \in Commands :
                  LET r == apply(lobby, id, cmd, 0)
                  IN  /\ r.ret # "panic" =>
                            /\ IsSome(r.lobby.game)
                            /\ Config(Unwrap(r.lobby.game)) = Config(st)
                            /\ r.lobby.settings = lobby.settings
                      /\ cmd \in LobbyCommands => r.lobby = lobby
                      /\ r.ret = "restart" =>
                            r.lobby.game = Some(StateNew(st.size, st.win, st.gravity))
            /\ LET lb == connection_made(lobby, Len(lobby.spectators) + 1)
               IN  lb.game = lobby.game /\ lb.settings = lobby.settings

\* A game with a mark on the grid in which the player whose turn it is has
\* just sent a lobby command: the call went through Game::simulate and its
\* ignore arm.
C20_Witness ==
    /\ prog = "server"
    /\ ~crashed
    /\ IsSome(lobby.game)
    /\ ret = "ignored"
    /\ Marks(Unwrap(lobby.game), "Naughts") = 1
    /\ Unwrap(lobby.game).size = 2

\* The settings as command cmd leaves them when it overwrites the setting it
\* names and nothing else.
Overwritten(settings, cmd) ==
    [grid_size |-> IF cmd[1] = "SetGridSize" THEN Some(cmd[2]) ELSE settings.grid_size,
     win_condition |->
        IF cmd[1] = "SetWinCondition" THEN Some(cmd[2]) ELSE settings.win_condition,
     gravity |-> IF cmd[1] = "SetGravity" THEN Some(cmd[2]) ELSE settings.gravity]

SettingsCommands == LobbyCommands \ {StartGame}

\* C21: before the game starts, SetWinCondition, SetGridSize and SetGravity
\* sent by either of the two players, whoever's turn it would be, overwrite
\* exactly the named setting and leave the other two settings and the player
\* table unchanged, the last value written winning; the same commands sent
\* by a client that holds no player role change nothing.
C21_SettingsOverwrite ==
    (prog = "server" /\ ~crashed /\ lobby.game = None) =>
        /\ \A id \in Clients, cmd \in SettingsCommands :
              LET r == apply(lobby, id, cmd, 0)
              IN  /\ r.out = <<>>
                  /\ r.lobby.players = lobby.players
                  /\ r.lobby.spectators = lobby.spectators
                  /\ r.lobby.game = None
                  /\ r.lobby.settings =
                        IF id \in DOMAIN lobby.players
                        THEN Overwritten(lobby.settings, cmd)
                        ELSE lobby.settings
        /\ \A id \in Clients, first \in SettingsCommands, last \in SettingsCommands :
              (id \in DOMAIN lobby.players /\ first[1] = last[1]) =>
                  LET one == apply(lobby, id, first, 0).lobby
                  IN  \A other \in DOMAIN lobby.players :
                          apply(one, other, last, 0).lobby.settings =
                              Overwritten(lobby.settings, last)

\* Two players and a client without a role are connected, no game exists,
\* the three settings hold values and a settings command has just been
\* applied.
C21_Witness ==
    /\ prog = "server"
    /\ lobby.game = None
    /\ Len(lobby.spectators) = 3
    /\ ret = "set"
    /\ lobby.settings.grid_size = Some(2)
    /\ lobby.settings.win_condition = Some(1)
    /\ lobby.settings.gravity = Some(TRUE)

\* The player table that connection order gives n connections: the first is
\* Crosses, the second Naughts, the others have no entry.
RolesByOrder(n) ==
    [id \in 1..(IF n < 2 THEN n ELSE 2) |-> IF id = 1 THEN "Crosses" ELSE "Naughts"]

\* C22: player roles are assigned by connection order and never change: the
\* first connection becomes Crosses, the second Naughts, every later one gets
\* no role; in every reachable state the player table has at most two
\* entries with distinct marks, and every connection, player or not, is in
\* the list of clients that receive broadcasts.
C22_RolesByConnectionOrder ==
    prog = "server" =>
        /\ lobby.players = RolesByOrder(Len(lobby.spectators))
        /\ Cardinality(DOMAIN lobby.players) <= 2
        /\ \A a \in DOMAIN lobby.players, b \in DOMAIN lobby.players :
              a # b => lobby.players[a] # lobby.players[b]
        /\ lobby.spectators = [k \in 1..Len(lobby.spectators) |-> k]
        /\ \A id \in Clients, cmd \in Commands :
              \A fail \in FailPoints(lobby, id) :
                  LET r == apply(lobby, id, cmd, fail)
                  IN  /\ r.lobby.players = lobby.players
                      /\ r.lobby.spectators = lobby.spectators
        /\ LET id == Len(lobby.spectators) + 1
               lb == connection_made(lobby, id)
           IN  /\ lb.spectators = Append(lobby.spectators, id)
               /\ \A old \in DOMAIN lobby.players :
                      old \in DOMAIN lb.players /\ lb.players[old] = lobby.players[old]
               /\ id \in DOMAIN lb.players <=> id <= 2

\* Three clients are connected while a game with a mark on the grid runs:
\* two hold a role, the third holds none and is in the list of receivers.
C22_Witness ==
    /\ prog = "server"
    /\ Len(lobby.spectators) = 3
    /\ DOMAIN lobby.players = {1, 2}
    /\ IsSome(lobby.game)
    /\ ret = "connected"
    /\ Marks(Unwrap(lobby.game), "Naughts") = 1

\* The cells of grid `after` that hold a mark and did not hold it in grid
\* `before` (both of the same size).
Filled(before, after) ==
    {cell \in (0..(before.size - 1)) \X (0..(before.size - 1)) :
        /\ IsSome(after.grid[cell[1]][cell[2]])
        /\ after.grid[cell[1]][cell[2]] # before.grid[cell[1]][cell[2]]}

\* Every mark on the grid of st belongs to a player of the table, and the
\* marks are as many as alternate turns from Naughts give.
MarksHaveOwners(lb, st) ==
    /\ \A c \in 0..(st.size - 1), r \in 0..(st.size - 1) :
          IsSome(st.grid[c][r]) =>
              \E id \in DOMAIN lb.players : lb.players[id] = Unwrap(st.grid[c][r])
    /\ TurnsAlternate(st)

\* C23: on the server every mark on the grid was placed by its owner: each
\* occupied cell holds the mark assigned at connection time to the client
\* whose Place command filled it, so no client can ever place the
\* opponent's mark.
C23_MarksPlacedByOwner ==
    (prog = "server" /\ IsSome(lobby.game)) =>
        /\ MarksHaveOwners(lobby, Unwrap(lobby.game))
        /\ \A id \in Clients, cmd \in Commands :
              LET r == apply(lobby, id, cmd, 0)
              IN  IsSome(r.lobby.game) =>
                      \A cell \in Filled(Unwrap(lobby.game), Unwrap(r.lobby.game)) :
                          /\ cmd[1] = "Place"
                          /\ id \in DOMAIN lobby.players
                          /\ Unwrap(r.lobby.game).grid[cell[1]][cell[2]] =
                                Some(lobby.players[id])
                          /\ Unwrap(lobby.game).grid[cell[1]][cell[2]] = None

\* Both players have placed marks in a running game, and a placement has
\* just been applied.
C23_Witness ==
    /\ prog = "server"
    /\ IsSome(lobby.game)
    /\ ret = "placed"
    /\ Marks(Unwrap(lobby.game), "Naughts") = 2
    /\ Marks(Unwrap(lobby.game), "Crosses") = 1
    /\ Len(lobby.spectators) = 3

\* Lobby lb after a Restart from client id: reset when the client is the
\* player whose turn it is in game st, untouched and silent otherwise.
RestartOnlyOnTurn(lb, st, id) ==
    LET r == apply(lb, id, Restart, 0)
    IN  IF id \in DOMAIN lb.players /\ lb.players[id] = st.turn
        THEN /\ r.ret = "restart"
             /\ r.lobby.game = Some(StateNew(st.size, st.win, st.gravity))
        ELSE /\ r.lobby = lb
             /\ r.out = <<>>
             /\ r.ret \in {"notturn", "noplayer"}

\* C24: on the server a Restart is accepted only from the player whose turn
\* it is; because the winning placement also toggles the turn, after a win
\* the only client whose Restart resets the game is the player who did not
\* make the winning move, and a Restart from the player who just moved is
\* ignored.
C24_RestartOnlyOnTurn ==
    (prog = "server" /\ IsSome(lobby.game)) =>
        /\ \A id \in Clients : RestartOnlyOnTurn(lobby, Unwrap(lobby.game), id)
        /\ \A mover \in Clients, cmd \in GameCommands(MaxLobbySize) \ {Restart} :
              LET won == apply(lobby, mover, cmd, 0)
              IN  (Unwrap(lobby.game).winner = None /\ won.ret = "placed"
                       /\ IsSome(Unwrap(won.lobby.game).winner)) =>
                      /\ apply(won.lobby, mover, Restart, 0).lobby = won.lobby
                      /\ apply(won.lobby, mover, Restart, 0).out = <<>>
                      /\ \A id \in Clients :
                            apply(won.lobby, id, Restart, 0).ret = "restart" <=>
                                /\ id \in DOMAIN lobby.players
                                /\ id # mover
                      /\ \A id \in Clients :
                            RestartOnlyOnTurn(won.lobby, Unwrap(won.lobby.game), id)

\* A game has just been won by a placement with both players and a third
\* client connected: the winner's Restart would be ignored, the loser's
\* would reset the game.
C24_Witness ==
    /\ prog = "server"
    /\ IsSome(lobby.game)
    /\ IsSome(Unwrap(lobby.game).winner)
    /\ ret = "placed"
    /\ Len(lobby.spectators) = 3
    /\ Unwrap(lobby.game).turn = "Crosses"
    /\ apply(lobby, 2, Restart, 0).ret = "notturn"
    /\ apply(lobby, 1, Restart, 0).ret = "restart"

\* A Place applied by handler `op` to st either is accepted, and then one
\* cell goes from empty to the mark of the player whose turn it was while
\* every other cell stays, or leaves the grid as it was.
PlacesOneCell(op(_, _), st) ==
    \A cmd \in GameCommands(MaxSize) \ {Restart} :
        LET r == op(st, cmd)
            cells == (0..(st.size - 1)) \X (0..(st.size - 1))
            diff == {cell \in cells :
                        r.state.grid[cell[1]][cell[2]] # st.grid[cell[1]][cell[2]]}
        IN  /\ DOMAIN r.state.grid = DOMAIN st.grid
            /\ \A c \in DOMAIN st.grid : DOMAIN r.state.grid[c] = DOMAIN st.grid[c]
            /\ IF r.ret = "placed"
               THEN /\ Cardinality(diff) = 1
                    /\ \A cell \in diff :
                          /\ st.grid[cell[1]][cell[2]] = None
                          /\ r.state.grid[cell[1]][cell[2]] = Some(st.turn)
               ELSE diff = {}
            /\ \A cell \in cells :
                  IsSome(st.grid[cell[1]][cell[2]]) =>
                      r.state.grid[cell[1]][cell[2]] = st.grid[cell[1]][cell[2]]

\* C25: an accepted Place changes exactly one cell of the grid, from empty
\* to the mark of the player whose turn it was, and leaves every other cell
\* unchanged; between two Restarts no occupied cell is ever emptied or
\* overwritten.
C25_PlaceChangesOneCell ==
    /\ prog = "game" => PlacesOneCell(simulate, game)
    /\ prog = "client" => PlacesOneCell(push, sim)

\* The client's simulator on a 3x3 grid without gravity holding marks of
\* both players, after a placement: a further Place on an occupied cell is
\* turned down and one on an empty cell is accepted.
C25_Witness ==
    /\ prog = "client"
    /\ sim.size = 3
    /\ ~sim.gravity
    /\ sim.winner = None
    /\ ret = "placed"
    /\ Marks(sim, "Naughts") = 2
    /\ Marks(sim, "Crosses") = 2
    /\ \E c \in 0..2, r \in 0..2 : push(sim, Place(c, r)).ret = "occupied"
    /\ \E c \in 0..2, r \in 0..2 : push(sim, Place(c, r)).ret = "placed"

====
